---- MODULE Spec2Model ----
(***************************************************************************)
(* The SpaceX ETL loader (src/SpaceX_project): main.py connects to the     *)
(* database, and for each dataset creates the root table, fetches a batch  *)
(* of JSON records and hands it to insert_or_update_data, which widens the *)
(* schema with add_missing_columns and upserts the records.                *)
(*                                                                         *)
(* Spec is main.py as it runs; SpecExternal adds another session that      *)
(* alters the tables; SpecLegacy is the loader of old/fetch_data2.py;      *)
(* SpecNested is the loader of old/fetch_data.py; SpecInfer calls          *)
(* infer_column_type on its own; SpecTransform is a script that calls the  *)
(* functions of transformation/ that main.py does not reach.               *)
(*                                                                         *)
(* Python values are tagged: [kind, val].  A dict is a sequence of items   *)
(* [key, value] in insertion order, with distinct keys.                    *)
(***************************************************************************)
EXTENDS Integers, Sequences, FiniteSets, TLC

VARIABLES
    db,                 \* the committed database: relations, columns, rows
    work,               \* the database as the connection's open transaction
                        \* sees it: db and the writes not yet committed
    failed,             \* a DDL statement of the current dataset has failed
    pc,                 \* position of main.py
    run,                \* how many times main() has been started
    dataset,            \* index into datasets of the dataset main() is at
    data,               \* the batch insert_or_update_data was called with
    idx,                \* 1-based position of the record the loop is at
    flattened_record,   \* insert_or_update_data's flattened_record
    existing_columns,   \* add_missing_columns' snapshot of the catalog
    kidx,               \* position of add_missing_columns' loop over the items
    call,               \* state of the insert_or_update_data call: idle,
                        \* running, returned, or the exception it raised
    log,                \* what the call printed for the upsert of each
                        \* record: [i, result] with result "ok" or "error"
    conn,               \* the psycopg2 connection: "open", or "lost" once the
                        \* server is gone (conn.closed is then non-zero)
    arg,                \* the argument of a call of infer_column_type
    inferred,           \* what that call returned
    tables,             \* table_splitter: the tables process_nested_json has
                        \* still to split, the one being split first
    json_columns,       \* split_json_columns' json_columns still to process
    stack               \* old/fetch_data.py: the calls of process_nested_json
                        \* in progress, the innermost first

vars == <<db, work, failed, pc, run, dataset, data, idx, flattened_record,
          existing_columns, kidx, call, log, conn, arg, inferred, tables,
          json_columns, stack>>

(***************************************************************************)
(* Bounds of the model.                                                    *)
(***************************************************************************)
MaxBatch == 2           \* records per fetched batch
MaxRuns == 2            \* runs of main() against the same database
MaxLegacyBatch == 2     \* records per batch fetched by old/fetch_data2.py
MaxInt == 3             \* integers handed to infer_column_type: -MaxInt..MaxInt
MaxElems == 2           \* elements of a list handed to infer_column_type
MaxNestedBatch == 1     \* records per batch fetched by old/fetch_data.py

(***************************************************************************)
(* Python values.                                                          *)
(***************************************************************************)
VNone == [kind |-> "none", val |-> 0]
VBool(b) == [kind |-> "bool", val |-> b]
VInt(i) == [kind |-> "int", val |-> i]
VStr(s) == [kind |-> "str", val |-> s]
VList(s) == [kind |-> "list", val |-> s]
VDict(d) == [kind |-> "dict", val |-> d]
Json(v) == [kind |-> "Json", val |-> v]      \* psycopg2.extras.Json(v)
Item(k, v) == [key |-> k, value |-> v]

\* str.lower() of one character; the strings of the model are ASCII
LowerChar(c) ==
    CASE c = "A" -> "a" [] c = "B" -> "b" [] c = "C" -> "c" [] c = "D" -> "d"
      [] c = "E" -> "e" [] c = "F" -> "f" [] c = "G" -> "g" [] c = "H" -> "h"
      [] c = "I" -> "i" [] c = "J" -> "j" [] c = "K" -> "k" [] c = "L" -> "l"
      [] c = "M" -> "m" [] c = "N" -> "n" [] c = "O" -> "o" [] c = "P" -> "p"
      [] c = "Q" -> "q" [] c = "R" -> "r" [] c = "S" -> "s" [] c = "T" -> "t"
      [] c = "U" -> "u" [] c = "V" -> "v" [] c = "W" -> "w" [] c = "X" -> "x"
      [] c = "Y" -> "y" [] c = "Z" -> "z" [] OTHER -> c

\* str.lower(), character by character
RECURSIVE Lower(_)
Lower(s) ==
    IF Len(s) = 0 THEN ""
    ELSE LowerChar(SubSeq(s, 1, 1)) \o Lower(SubSeq(s, 2, Len(s)))

\* bool(value): what `not record_id` and `if parent_id` test
Truthy(v) ==
    CASE v.kind = "none" -> FALSE
      [] v.kind = "bool" -> v.val
      [] v.kind = "int" -> v.val # 0
      [] v.kind = "str" -> v.val # ""
      [] v.kind \in {"list", "dict"} -> Len(v.val) > 0
      [] OTHER -> TRUE

\* str(value) of an id
ToStr(v) ==
    CASE v.kind = "str" -> v.val
      [] v.kind = "int" -> ToString(v.val)
      [] v.kind = "bool" -> IF v.val THEN "True" ELSE "False"
      [] v.kind = "none" -> "None"
      [] OTHER -> "?"

Keys(d) == {d[i].key : i \in 1..Len(d)}

\* dict.get(k)
Get(d, k) ==
    IF k \in Keys(d)
    THEN d[CHOOSE i \in 1..Len(d) : d[i].key = k].value
    ELSE VNone

\* d[k] = v: a new key is appended, an existing key keeps its position
Put(d, k, v) ==
    IF k \in Keys(d)
    THEN [i \in 1..Len(d) |-> IF d[i].key = k THEN Item(k, v) ELSE d[i]]
    ELSE Append(d, Item(k, v))

(***************************************************************************)
(* Text: json.dumps and json.loads, and the numbers written in a string.   *)
(***************************************************************************)
\* json.dumps(value): a str holding the JSON text of value
json_dumps(value) == [kind |-> "json_text", val |-> value]

DigitValue(c) ==
    CASE c = "0" -> 0 [] c = "1" -> 1 [] c = "2" -> 2 [] c = "3" -> 3
      [] c = "4" -> 4 [] c = "5" -> 5 [] c = "6" -> 6 [] c = "7" -> 7
      [] c = "8" -> 8 [] c = "9" -> 9 [] OTHER -> -1

\* one or more decimal digits
IsDigits(s) ==
    /\ Len(s) > 0
    /\ \A i \in 1..Len(s) : DigitValue(SubSeq(s, i, i)) >= 0

RECURSIVE ParseNat(_)
ParseNat(s) ==
    IF Len(s) = 0 THEN 0
    ELSE 10 * ParseNat(SubSeq(s, 1, Len(s) - 1))
            + DigitValue(SubSeq(s, Len(s), Len(s)))

\* s without the one character of signs it may begin with
Unsigned(s, signs) ==
    IF Len(s) > 0 /\ SubSeq(s, 1, 1) \in signs
    THEN SubSeq(s, 2, Len(s))
    ELSE s

\* a JSON number without fraction or exponent: no plus sign, no leading zero
IsJsonInteger(s) ==
    LET digits == Unsigned(s, {"-"})
    IN IsDigits(digits) /\ (Len(digits) = 1 \/ SubSeq(digits, 1, 1) # "0")

\* the JSON texts, other than the text json.dumps made, that the strings of
\* the model can hold: the three names and the integers
is_valid_json(text) ==
    \/ text.kind = "json_text"
    \/ /\ text.kind = "str"
       /\ \/ text.val \in {"true", "false", "null"}
          \/ IsJsonInteger(text.val)

\* json.loads(text) of a str that holds JSON text
json_loads(text) ==
    IF text.kind = "json_text" THEN text.val
    ELSE CASE text.val = "true" -> VBool(TRUE)
           [] text.val = "false" -> VBool(FALSE)
           [] text.val = "null" -> VNone
           [] OTHER ->
                 VInt(IF SubSeq(text.val, 1, 1) = "-"
                      THEN 0 - ParseNat(Unsigned(text.val, {"-"}))
                      ELSE ParseNat(text.val))

(***************************************************************************)
(* transformation/process_data.py                                          *)
(***************************************************************************)
RECURSIVE process_boolean_values(_)
process_boolean_value(value) ==
    IF value.kind = "bool"
    THEN VInt(IF value.val THEN 1 ELSE 0)
    ELSE IF value.kind = "dict"
    THEN VDict(process_boolean_values(value.val))
    ELSE IF value.kind = "list"
    THEN VList([j \in 1..Len(value.val) |->
                  IF value.val[j].kind = "dict"
                  THEN VDict(process_boolean_values(value.val[j].val))
                  ELSE value.val[j]])
    ELSE value

process_boolean_values(d) ==
    [i \in 1..Len(d) |-> Item(d[i].key, process_boolean_value(d[i].value))]

\* the value flatten_json stores under a key
flatten_value(value) ==
    IF value.kind = "dict" THEN Json(value)
    ELSE IF value.kind = "list" THEN Json(value)
    ELSE IF value.kind = "bool" THEN value
    ELSE value

RECURSIVE flatten_upto(_, _, _)
flatten_upto(d, prefix, n) ==
    IF n = 0 THEN <<>>
    ELSE Put(flatten_upto(d, prefix, n - 1),
             Lower(prefix \o d[n].key),
             flatten_value(d[n].value))

flatten_json(d, prefix) == flatten_upto(d, prefix, Len(d))

infer_column_type(value) ==
    IF value.kind \in {"int", "bool"} THEN "INTEGER"    \* a bool is an int
    ELSE IF value.kind = "float" THEN "REAL"
    ELSE IF value.kind = "str"
    THEN IF Lower(value.val) \in {"true", "false"} THEN "BOOLEAN" ELSE "TEXT"
    ELSE IF value.kind = "bool" THEN "BOOLEAN"
    ELSE IF value.kind \in {"dict", "list"} THEN "jsonb"
    ELSE IF value.kind = "none" THEN "TEXT"
    ELSE "TEXT"

(***************************************************************************)
(* The database behind the psycopg2 connection: the relations, the rows of *)
(* information_schema.columns, and the rows of the relations.              *)
(***************************************************************************)
Column(t, c, ty) == [table_name |-> t, column_name |-> c, data_type |-> ty]

ColumnsOf(d, t) == {c \in d.columns : c.table_name = t}

ColumnNames(d, t) == {c.column_name : c \in ColumnsOf(d, t)}

\* CREATE TABLE IF NOT EXISTS t (cols)
CreateTableIfNotExists(d, t, cols) ==
    IF t \in d.relations
    THEN d
    ELSE [d EXCEPT !.relations = @ \cup {t},
                   !.columns = @ \cup {Column(t, c[1], c[2]) : c \in cols}]

\* ALTER TABLE t ADD COLUMN c ty is accepted
CanAddColumn(d, t, c) == t \in d.relations /\ c \notin ColumnNames(d, t)

AddColumn(d, t, c, ty) == [d EXCEPT !.columns = @ \cup {Column(t, c, ty)}]

\* the data_type information_schema.columns reports for a column declared ty
data_type(ty) ==
    CASE ty = "TEXT" -> "text"
      [] ty = "INTEGER" -> "integer"
      [] ty = "REAL" -> "real"
      [] ty = "BOOLEAN" -> "boolean"
      [] ty = "JSONB" -> "jsonb"
      [] OTHER -> ty

\* the words the server reads as a boolean, in lower case: true, false, yes,
\* no, on, off and their unambiguous prefixes, 1 and 0
BooleanLiterals ==
    {"true", "tru", "tr", "t", "false", "fals", "fal", "fa", "f",
     "yes", "ye", "y", "no", "n", "on", "off", "of", "1", "0"}

\* what the server reads as an integer: digits after an optional sign
IsIntegerText(s) == IsDigits(Unsigned(s, {"-", "+"}))

\* what the server reads as a real: an integer, or digits around a point
IsRealText(s) ==
    \/ IsIntegerText(s)
    \/ \E i \in 1..Len(s) :
          /\ SubSeq(s, i, i) = "."
          /\ IsIntegerText(SubSeq(s, 1, i - 1))
          /\ IsDigits(SubSeq(s, i + 1, Len(s)))

\* the server takes the value psycopg2 sends for a column of this type.  NULL
\* goes anywhere; a str is sent as a quoted literal and read as the column's
\* type; a number or a boolean is cast on assignment to text but not to one
\* another; a list is sent as an ARRAY, the empty list as '{}'; a dict cannot
\* be adapted at all
Accepts(ty, value) ==
    CASE value.kind = "none" -> TRUE
      [] value.kind = "str" ->
            \/ data_type(ty) = "text"
            \/ data_type(ty) = "boolean" /\ Lower(value.val) \in BooleanLiterals
            \/ data_type(ty) = "integer" /\ IsIntegerText(value.val)
            \/ data_type(ty) = "real" /\ IsRealText(value.val)
            \/ data_type(ty) = "jsonb" /\ is_valid_json(value)
      [] value.kind \in {"json_text", "Json"} ->
            data_type(ty) \in {"text", "jsonb"}
      [] value.kind \in {"int", "float"} ->
            data_type(ty) \in {"integer", "real", "text"}
      [] value.kind = "bool" -> data_type(ty) \in {"boolean", "text"}
      [] value.kind = "list" ->
            \/ data_type(ty) = "text"
            \/ data_type(ty) = "jsonb" /\ Len(value.val) = 0
      [] OTHER -> FALSE

EmptyDb == [relations |-> {}, columns |-> {}, rows |-> {}]

\* a database left by a load of the earlier loader (old/fetch_data2.py):
\* launches holds one row
LoadedDb ==
    [relations |-> {"launches"},
     columns |-> {Column("launches", "id", "TEXT"),
                  Column("launches", "data", "TEXT"),
                  Column("launches", "name", "TEXT")},
     rows |-> {[table |-> "launches", id |-> "a1",
                cells |-> {Item("name", VStr("x"))}]}]

InitialDatabases == {EmptyDb, LoadedDb}

(***************************************************************************)
(* The records the fetcher can return.                                     *)
(***************************************************************************)
rec_name == <<Item("id", VStr("a1")), Item("Name", VStr("y"))>>
rec_tags ==
    <<Item("id", VStr("a1")),
      Item("tags", VList(<<VStr("x"), VStr("y"), VStr("z")>>))>>
rec_rocket ==
    <<Item("id", VStr("L1")),
      Item("rocket", VDict(<<Item("name", VStr("Falcon9")),
                             Item("stages", VInt(2))>>))>>
rec_noid == <<Item("name", VStr("x"))>>
rec_int == <<Item("id", VStr("b2")), Item("name", VInt(5)),
             Item("landed", VBool(TRUE))>>

Records == {rec_name, rec_tags, rec_rocket, rec_noid, rec_int}

RECURSIVE SeqsUpTo(_, _)
SeqsUpTo(S, n) ==
    IF n = 0 THEN {<<>>}
    ELSE LET shorter == SeqsUpTo(S, n - 1)
         IN shorter \cup {Append(q, x) : q \in shorter, x \in S}

\* a batch of three in which only the second record lacks an id
ExampleBatch == <<rec_name, rec_noid, rec_rocket>>

\* a record of a later fetch that carries the string "true" where rec_int
\* carries a boolean
rec_true == <<Item("id", VStr("b3")), Item("landed", VStr("true"))>>

LaterBatch == <<rec_true>>

\* a record nested two levels deep
rec_deep ==
    <<Item("id", VStr("L2")),
      Item("rocket", VDict(<<Item("name", VStr("Falcon9")),
                             Item("engines",
                                  VDict(<<Item("number", VInt(2))>>))>>))>>

DeepBatch == <<rec_deep>>

\* records told apart by their id only: the empty string, the integer 0, and
\* a record whose only field is its integer id
rec_empty == <<Item("id", VStr("")), Item("name", VStr("x"))>>
rec_zero == <<Item("id", VInt(0)), Item("name", VStr("x"))>>
rec_seven == <<Item("id", VInt(7))>>

IdBatch == <<rec_empty, rec_zero, rec_seven>>

Batches ==
    SeqsUpTo(Records, MaxBatch)
       \cup {ExampleBatch, LaterBatch, DeepBatch, IdBatch}

(***************************************************************************)
(* main.py                                                                 *)
(***************************************************************************)
datasets == <<"launches", "payloads">>

table_name == datasets[dataset]

Init ==
    /\ db \in InitialDatabases
    /\ work = db
    /\ failed = FALSE
    /\ pc = "connect"
    /\ run = 1
    /\ dataset = 1
    /\ data = <<>>
    /\ idx = 0
    /\ flattened_record = <<>>
    /\ existing_columns = {}
    /\ kidx = 0
    /\ call = "idle"
    /\ log = {}
    /\ conn = "open"
    /\ arg = VNone
    /\ inferred = ""
    /\ tables = <<>>
    /\ json_columns = <<>>
    /\ stack = <<>>

\* psycopg2.connect succeeds
Connect ==
    /\ pc = "connect"
    /\ pc' = "create_table"
    /\ dataset' = 1
    /\ UNCHANGED <<db, work, failed, run, data, idx, flattened_record,
                   existing_columns, kidx, call, log, conn, arg, tables,
                   json_columns, inferred, stack>>

\* psycopg2.connect raises: main prints and returns
ConnectFails ==
    /\ pc = "connect"
    /\ pc' = "exit"
    /\ UNCHANGED <<db, work, failed, run, dataset, data, idx, flattened_record,
                   existing_columns, kidx, call, log, conn, arg, tables,
                   json_columns, inferred, stack>>

\* fetch_and_process_data is back in main's for loop, which moves to the next
\* dataset or closes the connection
next_dataset ==
    /\ pc = "next"
    /\ IF dataset < Len(datasets)
       THEN pc' = "create_table" /\ dataset' = dataset + 1
       ELSE pc' = "closed" /\ dataset' = dataset
    /\ UNCHANGED <<db, work, failed, run, data, idx, flattened_record,
                   existing_columns, kidx, call, log, conn, arg, tables,
                   json_columns, inferred, stack>>

(***************************************************************************)
(* loading/create_table.py                                                 *)
(***************************************************************************)
\* CREATE TABLE IF NOT EXISTS and commit; on an exception, rollback
create_table_if_not_exists ==
    /\ pc = "create_table"
    /\ conn = "open"
    /\ \E ok \in BOOLEAN :
          /\ db' = IF ok
                   THEN CreateTableIfNotExists(work, table_name,
                            {<<"id", "TEXT">>, <<"data", "TEXT">>})
                   ELSE db
          /\ failed' = ~ok
    /\ work' = db'
    /\ pc' = "fetch"
    /\ data' = <<>>
    /\ idx' = 0
    /\ flattened_record' = <<>>
    /\ existing_columns' = {}
    /\ kidx' = 0
    /\ call' = "idle"
    /\ log' = {}
    /\ UNCHANGED <<run, dataset, conn, arg, tables, json_columns, inferred,
                   stack>>

\* the server goes away while the CREATE TABLE runs: cursor.execute raises,
\* the except clause prints and calls conn.rollback(), which raises on the
\* closed connection and leaves main()
create_table_connection_lost ==
    /\ pc = "create_table"
    /\ conn = "open"
    /\ conn' = "lost"
    /\ work' = db
    /\ failed' = TRUE
    /\ pc' = "exit"
    /\ UNCHANGED <<db, run, dataset, data, idx, flattened_record,
                   existing_columns, kidx, call, log, arg, tables,
                   json_columns, inferred, stack>>

\* create_table_if_not_exists is called with a connection already lost:
\* conn.cursor() raises inside the try, and so does the handler's
\* conn.rollback(), which leaves main()
create_table_on_lost_connection ==
    /\ pc = "create_table"
    /\ conn = "lost"
    /\ pc' = "exit"
    /\ UNCHANGED <<db, work, failed, run, dataset, data, idx, flattened_record,
                   existing_columns, kidx, call, log, conn, arg, tables,
                   json_columns, inferred, stack>>

(***************************************************************************)
(* main.py: fetch_and_process_data                                         *)
(***************************************************************************)
\* fetch_data and save_data_to_file succeed: insert_or_update_data is called
fetch_and_process_data ==
    /\ pc = "fetch"
    /\ \E batch \in Batches : data' = batch
    /\ idx' = 1
    /\ call' = "running"
    /\ pc' = "loop"
    /\ UNCHANGED <<db, work, failed, run, dataset, flattened_record,
                   existing_columns, kidx, log, conn, arg, tables,
                   json_columns, inferred, stack>>

\* fetch_data or save_data_to_file raises: the except clause prints
fetch_fails ==
    /\ pc = "fetch"
    /\ pc' = "next"
    /\ UNCHANGED <<db, work, failed, run, dataset, data, idx, flattened_record,
                   existing_columns, kidx, call, log, conn, arg, tables,
                   json_columns, inferred, stack>>

(***************************************************************************)
(* loading/database_operations.py                                          *)
(***************************************************************************)
record == data[idx]

record_id == Get(record, "id")

\* `if not record_id: continue`
skip_record ==
    /\ pc = "loop"
    /\ idx <= Len(data)
    /\ ~Truthy(record_id)
    /\ idx' = idx + 1
    /\ UNCHANGED <<db, work, failed, pc, run, dataset, data, flattened_record,
                   existing_columns, kidx, call, log, conn, arg, tables,
                   json_columns, inferred, stack>>

\* a variant of flatten_record in which the catalog is read for the first
\* record of a batch only and the snapshot is kept for the later ones
flatten_record_cached ==
    /\ pc = "loop"
    /\ idx <= Len(data)
    /\ Truthy(record_id)
    /\ flattened_record' = process_boolean_values(flatten_json(record, ""))
    /\ existing_columns' = IF idx = 1
                           THEN ColumnsOf(work, table_name)
                           ELSE existing_columns
    /\ kidx' = 1
    /\ pc' = "columns"
    /\ UNCHANGED <<db, work, failed, run, dataset, data, idx, call, log, conn,
                   arg, tables, json_columns, inferred, stack>>

\* flatten_json, process_boolean_values, and the catalog query that opens
\* add_missing_columns
flatten_record ==
    /\ pc = "loop"
    /\ idx <= Len(data)
    /\ Truthy(record_id)
    /\ flattened_record' = process_boolean_values(flatten_json(record, ""))
    /\ existing_columns' = ColumnsOf(work, table_name)
    /\ kidx' = 1
    /\ pc' = "columns"
    /\ UNCHANGED <<db, work, failed, run, dataset, data, idx, call, log, conn,
                   arg, tables, json_columns, inferred, stack>>

\* a variant of add_missing_columns that re-types an existing column whose
\* type differs from the one inferred from the record's value
add_missing_columns_retype ==
    /\ pc = "columns"
    /\ kidx <= Len(flattened_record)
    /\ LET column_name == Lower(flattened_record[kidx].key)
           column_type == infer_column_type(flattened_record[kidx].value)
           others == {c \in work.columns :
                        ~(c.table_name = table_name
                          /\ c.column_name = column_name)}
       IN IF table_name \in work.relations
          THEN db' = [work EXCEPT !.columns =
                         others \cup {Column(table_name, column_name,
                                             column_type)}]
          ELSE db' = db
    /\ work' = db'
    /\ kidx' = kidx + 1
    /\ UNCHANGED <<failed, pc, run, dataset, data, idx, flattened_record,
                   existing_columns, call, log, conn, arg, tables,
                   json_columns, inferred, stack>>

\* a variant of add_missing_columns that executes the ALTER and leaves out the
\* conn.commit() that follows it
add_missing_columns_uncommitted ==
    /\ pc = "columns"
    /\ kidx <= Len(flattened_record)
    /\ LET column_name == Lower(flattened_record[kidx].key)
           column_type == infer_column_type(flattened_record[kidx].value)
       IN IF column_name \in {c.column_name : c \in existing_columns}
          THEN UNCHANGED <<db, work, failed>>
          ELSE \E ok \in BOOLEAN :
                  IF ok /\ CanAddColumn(work, table_name, column_name)
                  THEN /\ work' = AddColumn(work, table_name, column_name,
                                            column_type)
                       /\ db' = db
                       /\ failed' = failed
                  ELSE /\ work' = db
                       /\ db' = db
                       /\ failed' = TRUE
    /\ kidx' = kidx + 1
    /\ UNCHANGED <<pc, run, dataset, data, idx, flattened_record,
                   existing_columns, call, log, conn, arg, tables,
                   json_columns, inferred, stack>>

\* one iteration of add_missing_columns' loop over the flattened items: a
\* column the catalog query did not return is added and committed; when the
\* ALTER raises, the transaction is rolled back
add_missing_columns ==
    /\ pc = "columns"
    /\ kidx <= Len(flattened_record)
    /\ LET column_name == Lower(flattened_record[kidx].key)
           column_type == infer_column_type(flattened_record[kidx].value)
       IN IF column_name \in {c.column_name : c \in existing_columns}
          THEN UNCHANGED <<db, work, failed>>
          ELSE \E ok \in BOOLEAN :
                  IF ok /\ CanAddColumn(work, table_name, column_name)
                  THEN /\ db' = AddColumn(work, table_name, column_name,
                                          column_type)
                       /\ work' = db'
                       /\ failed' = failed
                  ELSE /\ work' = db
                       /\ db' = db
                       /\ failed' = TRUE
    /\ kidx' = kidx + 1
    /\ UNCHANGED <<pc, run, dataset, data, idx, flattened_record,
                   existing_columns, call, log, conn, arg, tables,
                   json_columns, inferred, stack>>

\* the server goes away during add_missing_columns.  During the catalog query
\* (lines 10-12) the OperationalError leaves add_missing_columns at once;
\* during an ALTER the except clause catches it and its conn.rollback()
\* raises InterfaceError on the closed connection.  Either leaves
\* insert_or_update_data and is caught and printed by fetch_and_process_data
add_missing_columns_connection_lost ==
    /\ conn = "open"
    /\ \/ /\ pc = "loop"
          /\ idx <= Len(data)
          /\ Truthy(record_id)
          /\ call' = "OperationalError"
       \/ /\ pc = "columns"
          /\ kidx <= Len(flattened_record)
          /\ Lower(flattened_record[kidx].key) \notin
                {c.column_name : c \in existing_columns}
          /\ call' = "InterfaceError"
    /\ conn' = "lost"
    /\ work' = db
    /\ failed' = TRUE
    /\ pc' = "next"
    /\ UNCHANGED <<db, run, dataset, data, idx, flattened_record,
                   existing_columns, kidx, log, arg, tables, json_columns,
                   inferred, stack>>

\* line 45 calls process_nested_columns, a name that insert_or_update_data
\* binds only at line 89, after the loop: the call raises UnboundLocalError,
\* which leaves insert_or_update_data and is caught by fetch_and_process_data
process_nested_columns ==
    /\ pc = "columns"
    /\ kidx > Len(flattened_record)
    /\ call' = "UnboundLocalError"
    /\ pc' = "next"
    /\ UNCHANGED <<db, work, failed, run, dataset, data, idx, flattened_record,
                   existing_columns, kidx, log, conn, arg, tables,
                   json_columns, inferred, stack>>

\* the loop is over: conn.commit(), and fetch_and_process_data prints success
insert_or_update_data_returns ==
    /\ pc = "loop"
    /\ idx > Len(data)
    /\ db' = work
    /\ call' = "returned"
    /\ pc' = "next"
    /\ UNCHANGED <<work, failed, run, dataset, data, idx, flattened_record,
                   existing_columns, kidx, log, conn, arg, tables,
                   json_columns, inferred, stack>>

\* main() is started again on the same database; the closed connection's
\* open transaction is gone
Rerun ==
    /\ pc \in {"closed", "exit"}
    /\ run < MaxRuns
    /\ run' = run + 1
    /\ pc' = "connect"
    /\ work' = db
    /\ failed' = FALSE
    /\ dataset' = 1
    /\ data' = <<>>
    /\ idx' = 0
    /\ flattened_record' = <<>>
    /\ existing_columns' = {}
    /\ kidx' = 0
    /\ call' = "idle"
    /\ log' = {}
    /\ conn' = "open"
    /\ UNCHANGED <<db, arg, tables, json_columns, inferred, stack>>

Next ==
    \/ Connect
    \/ ConnectFails
    \/ create_table_if_not_exists
    \/ create_table_connection_lost
    \/ create_table_on_lost_connection
    \/ fetch_and_process_data
    \/ fetch_fails
    \/ skip_record
    \/ flatten_record
    \/ add_missing_columns
    \/ add_missing_columns_connection_lost
    \/ process_nested_columns
    \/ insert_or_update_data_returns
    \/ next_dataset
    \/ Rerun

Spec == Init /\ [][Next]_vars

(***************************************************************************)
(* The loader next to another session that adds columns to the table being *)
(* loaded.  Its committed DDL is seen by the loader's next statement.      *)
(***************************************************************************)
ExternalColumns == {"name", "landed"}

external_add_column ==
    /\ pc \in {"fetch", "loop", "columns"}
    /\ \E c \in ExternalColumns :
          /\ CanAddColumn(db, table_name, c)
          /\ db' = AddColumn(db, table_name, c, "TEXT")
          /\ work' = AddColumn(work, table_name, c, "TEXT")
    /\ UNCHANGED <<failed, pc, run, dataset, data, idx, flattened_record,
                   existing_columns, kidx, call, log, conn, arg, tables,
                   json_columns, inferred, stack>>

\* one run of main() with the other session at work
NextExternal ==
    \/ Connect
    \/ ConnectFails
    \/ create_table_if_not_exists
    \/ create_table_connection_lost
    \/ create_table_on_lost_connection
    \/ fetch_and_process_data
    \/ fetch_fails
    \/ skip_record
    \/ flatten_record
    \/ add_missing_columns
    \/ add_missing_columns_connection_lost
    \/ process_nested_columns
    \/ insert_or_update_data_returns
    \/ next_dataset
    \/ external_add_column

SpecExternal == Init /\ [][NextExternal]_vars

(***************************************************************************)
(* old/fetch_data2.py: the loader before the nested-column step was added. *)
(* Its main, fetch_and_process_data, create_table_if_not_exists and        *)
(* add_missing_columns are line for line those above; its flatten_json     *)
(* inlines nested objects, its process_boolean_values rewrites more than   *)
(* booleans, and its insert_or_update_data goes from add_missing_columns   *)
(* straight to the upsert, which is the statement of                       *)
(* database_operations.py lines 47-85.                                     *)
(***************************************************************************)
\* dict.update(other)
RECURSIVE UpdateUpTo(_, _, _)
UpdateUpTo(d, other, n) ==
    IF n = 0 THEN d
    ELSE Put(UpdateUpTo(d, other, n - 1), other[n].key, other[n].value)

Update(d, other) == UpdateUpTo(d, other, Len(other))

RECURSIVE legacy_flatten_upto(_, _, _)
legacy_flatten_json(d, prefix) == legacy_flatten_upto(d, prefix, Len(d))

legacy_flatten_upto(d, prefix, n) ==
    IF n = 0 THEN <<>>
    ELSE LET flattened == legacy_flatten_upto(d, prefix, n - 1)
             new_key == Lower(prefix \o d[n].key)
             value == d[n].value
         IN IF value.kind = "dict"
            THEN Update(flattened,
                        legacy_flatten_json(value.val, new_key \o "_"))
            ELSE IF value.kind = "list"
            THEN Put(flattened, new_key, json_dumps(value))
            ELSE Put(flattened, new_key, value)

legacy_process_boolean_value(value) ==
    IF value.kind = "str"
    THEN IF Lower(value.val) = "true" THEN VInt(1)
         ELSE IF Lower(value.val) = "false" THEN VInt(0)
         ELSE value
    ELSE IF value.kind = "json_text"
    THEN value
    ELSE IF Truthy(value) THEN VInt(1)
    ELSE IF value.kind = "bool" THEN VInt(0)
    ELSE value

legacy_process_boolean_values(d) ==
    [i \in 1..Len(d) |->
        Item(d[i].key, legacy_process_boolean_value(d[i].value))]

\* the record whose load by this loader leaves LoadedDb
rec_first == <<Item("id", VStr("a1")), Item("name", VStr("x"))>>

LegacyRecords == {rec_first, rec_rocket, rec_noid, rec_int}

\* a fetch that returns one record, whose only field is its id
IdOnlyBatch == <<rec_seven>>

LegacyBatches == SeqsUpTo(LegacyRecords, MaxLegacyBatch) \cup {IdOnlyBatch}

\* fetch_data and save_data_to_file succeed: insert_or_update_data is called
legacy_fetch_and_process_data ==
    /\ pc = "fetch"
    /\ \E batch \in LegacyBatches : data' = batch
    /\ idx' = 1
    /\ call' = "running"
    /\ pc' = "loop"
    /\ UNCHANGED <<db, work, failed, run, dataset, flattened_record,
                   existing_columns, kidx, log, conn, arg, tables,
                   json_columns, inferred, stack>>

legacy_flatten_record ==
    /\ pc = "loop"
    /\ idx <= Len(data)
    /\ Truthy(record_id)
    /\ flattened_record' =
          legacy_process_boolean_values(legacy_flatten_json(record, ""))
    /\ existing_columns' = ColumnsOf(work, table_name)
    /\ kidx' = 1
    /\ pc' = "columns"
    /\ UNCHANGED <<db, work, failed, run, dataset, data, idx, call, log, conn,
                   arg, tables, json_columns, inferred, stack>>

\* the items that make the statement's columns, values and update pairs
UpsertItems(flat) == SelectSeq(flat, LAMBDA it : it.key # "id")

\* the statement parses (its column list is not empty), names a relation and
\* columns that exist, names no column twice, and carries for each column a
\* value the server takes for the column's type
StatementValid(d, t, items) ==
    /\ Len(items) > 0
    /\ t \in d.relations
    /\ "id" \in ColumnNames(d, t)
    /\ \A i, j \in 1..Len(items) :
          Lower(items[i].key) = Lower(items[j].key) => i = j
    /\ \A i \in 1..Len(items) :
          \E c \in ColumnsOf(d, t) :
             /\ c.column_name = Lower(items[i].key)
             /\ Accepts(c.data_type, items[i].value)

\* INSERT ... ON CONFLICT (id) DO UPDATE SET col = EXCLUDED.col, ...
Upsert(d, t, id, items) ==
    LET named == {Lower(items[i].key) : i \in 1..Len(items)}
        cells == {Item(Lower(items[i].key), items[i].value) :
                     i \in 1..Len(items)}
        old == {r \in d.rows : r.table = t /\ r.id = id}
        kept == UNION {{c \in r.cells : c.key \notin named} : r \in old}
    IN [d EXCEPT !.rows = (@ \ old) \cup
                    {[table |-> t, id |-> id, cells |-> kept \cup cells]}]

\* the statement is built and executed; when it raises, the except clause
\* prints and calls conn.rollback()
legacy_upsert ==
    /\ pc = "columns"
    /\ kidx > Len(flattened_record)
    /\ LET items == UpsertItems(flattened_record)
       IN \E ok \in BOOLEAN :
             IF ok /\ StatementValid(work, table_name, items)
             THEN /\ work' = Upsert(work, table_name, ToStr(record_id), items)
                  /\ log' = log \cup {[i |-> idx, result |-> "ok"]}
             ELSE /\ work' = db
                  /\ log' = log \cup {[i |-> idx, result |-> "error"]}
    /\ idx' = idx + 1
    /\ pc' = "loop"
    /\ UNCHANGED <<db, failed, run, dataset, data, flattened_record,
                   existing_columns, kidx, call, conn, arg, tables,
                   json_columns, inferred, stack>>

NextLegacy ==
    \/ Connect
    \/ ConnectFails
    \/ create_table_if_not_exists
    \/ legacy_fetch_and_process_data
    \/ fetch_fails
    \/ skip_record
    \/ legacy_flatten_record
    \/ add_missing_columns
    \/ legacy_upsert
    \/ insert_or_update_data_returns
    \/ next_dataset

SpecLegacy == Init /\ [][NextLegacy]_vars

(***************************************************************************)
(* infer_column_type called on its own, on every kind of value json.loads  *)
(* can produce and on the Json wrapper flatten_json produces.              *)
(***************************************************************************)
\* a float: val is the number of halves, so 3 is 1.5 and 4 is 2.0
VFloat(h) == [kind |-> "float", val |-> h]

Strings == {"", "x", "y", "Falcon9", "true", "false", "True", "TRUE", "tRuE",
            "False", "FALSE", "fAlSe", "0", "1"}

ScalarValues ==
    {VNone, VBool(TRUE), VBool(FALSE)}
       \cup {VInt(i) : i \in -MaxInt..MaxInt}
       \cup {VFloat(h) : h \in -(2 * MaxInt)..(2 * MaxInt)}
       \cup {VStr(str) : str \in Strings}

Elements == {VBool(TRUE), VInt(1), VStr("true")}

NestedValues ==
    {VList(q) : q \in SeqsUpTo(Elements, MaxElems)}
       \cup {VDict(<<>>)}
       \cup {VDict(<<Item("landed", e)>>) : e \in Elements}

Values == ScalarValues \cup NestedValues \cup {Json(v) : v \in NestedValues}

InitInfer ==
    /\ db = EmptyDb
    /\ work = db
    /\ failed = FALSE
    /\ pc = "infer"
    /\ run = 1
    /\ dataset = 1
    /\ data = <<>>
    /\ idx = 0
    /\ flattened_record = <<>>
    /\ existing_columns = {}
    /\ kidx = 0
    /\ call = "idle"
    /\ log = {}
    /\ conn = "open"
    /\ arg \in Values
    /\ inferred = ""
    /\ tables = <<>>
    /\ json_columns = <<>>
    /\ stack = <<>>

\* infer_column_type(value) is called and returns
infer ==
    /\ pc = "infer"
    /\ inferred' = infer_column_type(arg)
    /\ pc' = "inferred"
    /\ UNCHANGED <<db, work, failed, run, dataset, data, idx, flattened_record,
                   existing_columns, kidx, call, log, conn, arg, tables,
                   json_columns, stack>>

NextInfer == infer

SpecInfer == InitInfer /\ [][NextInfer]_vars

(***************************************************************************)
(* The functions of transformation/ that change the schema and that        *)
(* main.py does not reach: remove_data_column_if_exists and                *)
(* create_nested_table of process_data.py and the table splitter           *)
(* (table_splitter.py).  SpecTransform is a script that calls them on an   *)
(* open connection, one call after the other; an exception that leaves a   *)
(* function ends the script.  A statement that changes the database fails  *)
(* when the statement and the schema make it fail, or when the server      *)
(* refuses it; the connection stays up.                                    *)
(***************************************************************************)
\* f"{parent_table}_{nested_column}"
child_table(parent_table, nested_column) ==
    parent_table \o "_" \o nested_column

Rows(d, t) == {r \in d.rows : r.table = t}

\* the value of column c in row r; a column the row has no cell for is NULL
Cell(r, c) ==
    IF c = "id" THEN VStr(r.id)
    ELSE IF \E x \in r.cells : x.key = c
    THEN (CHOOSE x \in r.cells : x.key = c).value
    ELSE VNone

\* ALTER TABLE t DROP COLUMN c
DropColumn(d, t, c) ==
    [d EXCEPT
       !.columns = {x \in @ : ~(x.table_name = t /\ x.column_name = c)},
       !.rows = {IF r.table = t
                 THEN [r EXCEPT !.cells = {x \in @ : x.key # c}]
                 ELSE r : r \in @}]

\* every ordering of a finite set
RECURSIVE Perms(_)
Perms(S) ==
    IF S = {} THEN {<<>>}
    ELSE UNION {{<<x>> \o q : q \in Perms(S \ {x})} : x \in S}

\* get_id_column_type: the catalog's data_type of the parent's id column
get_id_column_type(d, t) ==
    IF "id" \in ColumnNames(d, t)
    THEN data_type((CHOOSE c \in ColumnsOf(d, t) :
                       c.column_name = "id").data_type)
    ELSE "text"

\* SELECT c FROM t WHERE c IS NOT NULL LIMIT 1 has no ORDER BY: any row whose
\* c is not NULL can be the one returned
Samples(d, t, c) == {Cell(r, c) : r \in {r \in Rows(d, t) : Cell(r, c) # VNone}}

\* the test of lines 60-72 on the sample of a column whose data_type is ty
is_json_sample(ty, sample_data) ==
    /\ Truthy(sample_data)
    /\ \/ /\ ty = "text"
          /\ is_valid_json(sample_data)
          /\ json_loads(sample_data).kind = "dict"
       \/ ty = "jsonb" /\ sample_data.kind = "dict"

\* an entry of json_column_data
JsonColumn(c, sample_data) ==
    [column_name |-> c,
     sample_data |-> IF sample_data.kind = "dict" THEN sample_data.val
                     ELSE json_loads(sample_data).val]

\* the lists identify_json_columns can return: one entry for each text or
\* jsonb column whose sample is a JSON object, in the order of the catalog
identify_json_columns(d, t) ==
    LET potential_json_columns ==
           {c \in ColumnsOf(d, t) : data_type(c.data_type) \in {"text", "jsonb"}}
        entries(c) ==
           {JsonColumn(c.column_name, s) :
               s \in {s \in Samples(d, t, c.column_name) :
                         is_json_sample(data_type(c.data_type), s)}}
        skips(c) ==
           \/ Samples(d, t, c.column_name) = {}
           \/ \E s \in Samples(d, t, c.column_name) :
                 ~is_json_sample(data_type(c.data_type), s)
        all == UNION {entries(c) : c \in potential_json_columns}
        lists ==
           {S \in SUBSET all :
               /\ \A e1, e2 \in S :
                     e1.column_name = e2.column_name => e1 = e2
               /\ \A c \in potential_json_columns :
                     (\A e \in S : e.column_name # c.column_name) => skips(c)}
    IN UNION {Perms(S) : S \in lists}

\* the outcome of a function that can raise: the database it leaves, and
\* whether an exception left it
Outcome(d, raised) == [db |-> d, raised |-> raised]

\* create_related_table: the column definitions are spliced into the statement
\* unquoted, so the server folds their names to lower case; the statement does
\* not parse when sample_data is empty (the list ends in a comma), and is
\* refused when the parent has no id column or a name occurs twice
create_related_table(d, parent_table, column_name, sample_data) ==
    LET new_table_name == child_table(parent_table, column_name)
        id_type == get_id_column_type(d, parent_table)
        columns == {<<Lower(sample_data[i].key),
                      infer_column_type(sample_data[i].value)>> :
                       i \in 1..Len(sample_data)}
        names == {Lower(sample_data[i].key) : i \in 1..Len(sample_data)}
        accepted ==
           /\ parent_table \in d.relations
           /\ "id" \in ColumnNames(d, parent_table)
           /\ names \cap {"id", "parent_id"} = {}
           /\ Cardinality(names) = Len(sample_data)
    IN IF Len(sample_data) = 0 THEN Outcome(d, TRUE)
       ELSE IF new_table_name \in d.relations THEN Outcome(d, FALSE)
       ELSE IF ~accepted THEN Outcome(d, TRUE)
       ELSE Outcome(CreateTableIfNotExists(
                       d, new_table_name,
                       {<<"id", "TEXT">>, <<"parent_id", id_type>>}
                          \cup columns),
                    FALSE)

\* INSERT INTO new_table_name (parent_id, keys...) VALUES (...) is accepted:
\* the keys are quoted identifiers, so they must name the columns exactly,
\* and none of them parent_id again; an id the data carries must be new
InsertValid(d, new_table_name, json_data) ==
    /\ Len(json_data) > 0
    /\ new_table_name \in d.relations
    /\ {"id", "parent_id"} \subseteq ColumnNames(d, new_table_name)
    /\ \A i \in 1..Len(json_data) :
          /\ json_data[i].key # "parent_id"
          /\ \E c \in ColumnsOf(d, new_table_name) :
                /\ c.column_name = json_data[i].key
                /\ Accepts(c.data_type, json_data[i].value)
    /\ "id" \in Keys(json_data) =>
          /\ Get(json_data, "id").kind \in {"str", "int"}
          /\ \A r \in Rows(d, new_table_name) :
                r.id # ToStr(Get(json_data, "id"))

\* the row the INSERT adds; its id is the one the data carries, or the column
\* default md5(random()::text), a value no other row of the table has
InsertedRow(d, new_table_name, parent_id, json_data) ==
    [table |-> new_table_name,
     id |-> IF "id" \in Keys(json_data)
            THEN ToStr(Get(json_data, "id"))
            ELSE "md5-" \o ToString(Cardinality(Rows(d, new_table_name)) + 1),
     cells |-> {Item("parent_id", VStr(parent_id))}
                  \cup {json_data[i] : i \in {k \in 1..Len(json_data) :
                                                json_data[k].key # "id"}}]

\* migrate_json_data's loop over the first n of the fetched records, which
\* are rows of the parent table; committed is the database at the last
\* commit, to which conn.rollback() returns; refused[n] tells that the server
\* refuses the INSERT of the n-th record whatever the statement
RECURSIVE migrate_upto(_, _, _, _, _, _)
migrate_upto(committed, column_name, new_table_name, records, refused, n) ==
    IF n = 0 THEN committed
    ELSE LET d == migrate_upto(committed, column_name, new_table_name,
                               records, refused, n - 1)
             parent_id == records[n].id
             cell == Cell(records[n], column_name)
             json_data == IF cell.kind \in {"str", "json_text"}
                          THEN json_loads(cell)
                          ELSE cell
         IN IF cell.kind \in {"str", "json_text"} /\ ~is_valid_json(cell)
            THEN d
            ELSE IF json_data.kind # "dict"
            THEN d
            ELSE IF ~refused[n] /\ InsertValid(d, new_table_name, json_data.val)
            THEN [d EXCEPT !.rows = @ \cup
                    {InsertedRow(d, new_table_name, parent_id,
                                 json_data.val)}]
            ELSE committed

\* the rows SELECT id, column_name FROM parent_table WHERE column_name IS NOT
\* NULL returns
MigratedRecords(d, parent_table, column_name) ==
    {r \in Rows(d, parent_table) : Cell(r, column_name) # VNone}

\* migrate_json_data with the records fetched in the given order; the SELECT
\* raises when the table or the column does not exist
migrate_json_data(d, parent_table, column_name, new_table_name, records, refused) ==
    IF /\ parent_table \in d.relations
       /\ {"id", column_name} \subseteq ColumnNames(d, parent_table)
    THEN Outcome(migrate_upto(d, column_name, new_table_name, records,
                              refused, Len(records)),
                 FALSE)
    ELSE Outcome(d, TRUE)

(***************************************************************************)
(* The databases the script finds: one the loaders left, or one whose      *)
(* launches table keeps nested objects as JSON text in the TEXT column     *)
(* rocket and whose payloads table keeps them in the jsonb column dragon.  *)
(***************************************************************************)
MaxCalls == 2           \* calls the script makes

rocket_full == <<Item("name", VStr("Falcon9")), Item("stages", VInt(2))>>
rocket_short == <<Item("name", VStr("Falcon1"))>>
rocket_nested ==
    <<Item("name", VStr("Falcon9")),
      Item("engines", VDict(<<Item("number", VInt(2))>>))>>
rocket_upper == <<Item("Name", VStr("Falcon9"))>>
dragon == <<Item("capsule", VNone), Item("mass", VInt(3))>>

RocketRow(id, rocket) ==
    [table |-> "launches", id |-> id,
     cells |-> {Item("rocket", json_dumps(VDict(rocket)))}]

RocketRows ==
    {RocketRow("a1", rocket_full), RocketRow("L1", rocket_short),
     RocketRow("L2", rocket_nested), RocketRow("b2", rocket_upper),
     [table |-> "launches", id |-> "b3",
      cells |-> {Item("rocket", VStr("x"))}]}

JsonDb(rows) ==
    [relations |-> {"launches", "payloads"},
     columns |-> {Column("launches", "id", "TEXT"),
                  Column("launches", "data", "TEXT"),
                  Column("launches", "rocket", "TEXT"),
                  Column("launches", "tags", "TEXT"),
                  Column("payloads", "id", "TEXT"),
                  Column("payloads", "dragon", "jsonb")},
     rows |-> rows \cup
              {[table |-> "launches", id |-> "c4",
                cells |-> {Item("tags",
                                json_dumps(VList(<<VStr("x"), VStr("y")>>)))}],
               [table |-> "payloads", id |-> "p1",
                cells |-> {Item("dragon", VDict(dragon))}]}]

TransformDatabases ==
    {EmptyDb, LoadedDb}
       \cup {JsonDb(rows) : rows \in {S \in SUBSET RocketRows :
                                        Cardinality(S) \in {1, 2}}}

\* the table and column names and the sample the script passes
Tables == {"launches", "payloads"}
NestedColumns == {"rocket", "dragon"}
SampleData == {rocket_full, rocket_upper, <<>>}

InitTransform ==
    /\ db \in TransformDatabases
    /\ work = db
    /\ failed = FALSE
    /\ pc = "script"
    /\ run = 1
    /\ dataset = 1
    /\ data = <<>>
    /\ idx = 0
    /\ flattened_record = <<>>
    /\ existing_columns = {}
    /\ kidx = 0
    /\ call = "idle"
    /\ log = {}
    /\ conn = "open"
    /\ arg = VNone
    /\ inferred = ""
    /\ tables = <<>>
    /\ json_columns = <<>>
    /\ stack = <<>>

\* remove_data_column_if_exists(conn, t): the column is dropped and the drop
\* committed; when the ALTER raises, the except clause rolls back
remove_data_column_if_exists ==
    /\ pc = "script"
    /\ run <= MaxCalls
    /\ \E t \in Tables :
          IF "data" \in ColumnNames(work, t)
          THEN \E ok \in BOOLEAN :
                  IF ok
                  THEN /\ db' = DropColumn(work, t, "data")
                       /\ work' = db'
                  ELSE /\ work' = db
                       /\ db' = db
          ELSE UNCHANGED <<db, work>>
    /\ call' = "returned"
    /\ run' = run + 1
    /\ UNCHANGED <<failed, pc, dataset, data, idx, flattened_record,
                   existing_columns, kidx, log, conn, arg, inferred, tables,
                   json_columns, stack>>

\* the child table create_nested_table creates
NestedTableColumns(parent_table) ==
    {<<"child_id", "TEXT">>, <<child_table(parent_table, "id"), "TEXT">>,
     <<"data", "JSONB">>}

\* INSERT INTO "child" (child_id, "parent"_id, data): the quoted parent name
\* followed by _id is not a column name, and the statement does not parse
nested_insert_parses == FALSE

\* create_nested_table(conn, parent_table, nested_column, nested_data): the
\* CREATE TABLE is outside any try, and raises when the server refuses it or
\* the child is new and the parent or its id column is missing; it is
\* committed; every INSERT raises and is rolled back; the function commits,
\* which changes nothing, and returns
create_nested_table ==
    /\ pc = "script"
    /\ run <= MaxCalls
    /\ \E parent_table \in Tables, nested_column \in NestedColumns,
          nested_data \in {<<>>, <<<<"a1", VDict(rocket_full)>>>>},
          ok \in BOOLEAN :
          LET child == child_table(parent_table, nested_column)
              created == CreateTableIfNotExists(
                            work, child, NestedTableColumns(parent_table))
              inserted ==
                 IF nested_insert_parses
                 THEN [created EXCEPT !.rows = @ \cup
                         {[table |-> child, id |-> "uuid4",
                           cells |-> {Item(child_table(parent_table, "id"),
                                           VStr(nested_data[i][1])),
                                      Item("data", Json(nested_data[i][2]))}] :
                             i \in 1..Len(nested_data)}]
                 ELSE created
              accepted ==
                 \/ child \in work.relations
                 \/ /\ parent_table \in work.relations
                    /\ "id" \in ColumnNames(work, parent_table)
          IN IF ok /\ accepted
             THEN /\ db' = inserted
                  /\ work' = db'
                  /\ call' = "returned"
                  /\ pc' = pc
             ELSE /\ UNCHANGED <<db, work>>
                  /\ call' = IF ok THEN "ProgrammingError"
                             ELSE "OperationalError"
                  /\ pc' = "raised"
    /\ run' = run + 1
    /\ UNCHANGED <<failed, dataset, data, idx, flattened_record,
                   existing_columns, kidx, log, conn, arg, inferred, tables,
                   json_columns, stack>>

\* the script calls create_related_table(conn, parent_table, column_name,
\* sample_data); the server can refuse the CREATE TABLE
call_create_related_table ==
    /\ pc = "script"
    /\ run <= MaxCalls
    /\ \E parent_table \in Tables, column_name \in NestedColumns,
          sample_data \in SampleData, ok \in BOOLEAN :
          LET out == IF ok
                     THEN create_related_table(work, parent_table,
                                               column_name, sample_data)
                     ELSE Outcome(db, TRUE)
          IN /\ db' = out.db
             /\ work' = out.db
             /\ call' = IF ~out.raised THEN "returned"
                        ELSE IF ok THEN "ProgrammingError"
                        ELSE "OperationalError"
             /\ pc' = IF out.raised THEN "raised" ELSE pc
    /\ run' = run + 1
    /\ UNCHANGED <<failed, dataset, data, idx, flattened_record,
                   existing_columns, kidx, log, conn, arg, inferred, tables,
                   json_columns, stack>>

\* the script calls migrate_json_data(conn, parent_table, column_name,
\* new_table_name) with the name create_related_table returns
call_migrate_json_data ==
    /\ pc = "script"
    /\ run <= MaxCalls
    /\ \E parent_table \in Tables, column_name \in NestedColumns :
       \E records \in Perms(MigratedRecords(work, parent_table, column_name)) :
       \E refused \in [1..Len(records) -> BOOLEAN] :
          LET out == migrate_json_data(
                        work, parent_table, column_name,
                        child_table(parent_table, column_name), records,
                        refused)
          IN /\ db' = out.db
             /\ work' = out.db
             /\ call' = IF out.raised THEN "ProgrammingError" ELSE "returned"
             /\ pc' = IF out.raised THEN "raised" ELSE pc
    /\ run' = run + 1
    /\ UNCHANGED <<failed, dataset, data, idx, flattened_record,
                   existing_columns, kidx, log, conn, arg, inferred, tables,
                   json_columns, stack>>

\* process_nested_json(conn): the tables of the public schema are listed, in
\* the order the catalog returns them
process_nested_json ==
    /\ pc = "script"
    /\ run <= MaxCalls
    /\ \E q \in Perms(work.relations) :
          /\ tables' = q
          /\ pc' = IF q = <<>> THEN "script" ELSE "tables"
    /\ call' = IF work.relations = {} THEN "returned" ELSE "running"
    /\ run' = run + 1
    /\ UNCHANGED <<db, work, failed, dataset, data, idx, flattened_record,
                   existing_columns, kidx, log, conn, arg, inferred,
                   json_columns, stack>>

\* the script calls split_json_columns(conn, t)
call_split_json_columns ==
    /\ pc = "script"
    /\ run <= MaxCalls
    /\ \E t \in Tables : tables' = <<t>>
    /\ pc' = "tables"
    /\ call' = "running"
    /\ run' = run + 1
    /\ UNCHANGED <<db, work, failed, dataset, data, idx, flattened_record,
                   existing_columns, kidx, log, conn, arg, inferred,
                   json_columns, stack>>

\* split_json_columns(conn, tables[1]) begins: identify_json_columns
split_json_columns ==
    /\ pc = "tables"
    /\ tables # <<>>
    /\ json_columns' \in identify_json_columns(work, Head(tables))
    /\ pc' = "split"
    /\ UNCHANGED <<db, work, failed, run, dataset, data, idx,
                   flattened_record, existing_columns, kidx, call, log, conn,
                   arg, inferred, tables, stack>>

\* an iteration of split_json_columns' loop begins (line 177): the related
\* table is created and the CREATE TABLE committed, the parent's column still
\* in place
split_create_related_table ==
    /\ pc = "split"
    /\ json_columns # <<>>
    /\ \E ok \in BOOLEAN :
          LET out == IF ok
                     THEN create_related_table(
                             work, Head(tables),
                             Head(json_columns).column_name,
                             Head(json_columns).sample_data)
                     ELSE Outcome(db, TRUE)
          IN /\ db' = out.db
             /\ work' = out.db
             /\ call' = IF ~out.raised THEN call
                        ELSE IF ok THEN "ProgrammingError"
                        ELSE "OperationalError"
             /\ pc' = IF out.raised THEN "raised" ELSE "migrate"
    /\ UNCHANGED <<failed, run, dataset, data, idx, flattened_record,
                   existing_columns, kidx, log, conn, arg, inferred, tables,
                   json_columns, stack>>

\* the iteration goes on (line 181): the column's data is migrated and the
\* rows committed, the parent's column still in place
split_migrate_json_data ==
    /\ pc = "migrate"
    /\ LET t == Head(tables)
           column_name == Head(json_columns).column_name
       IN \E records \in Perms(MigratedRecords(work, t, column_name)) :
          \E refused \in [1..Len(records) -> BOOLEAN] :
             LET out == migrate_json_data(work, t, column_name,
                                          child_table(t, column_name),
                                          records, refused)
             IN /\ db' = out.db
                /\ work' = out.db
                /\ call' = IF out.raised THEN "ProgrammingError" ELSE call
                /\ pc' = IF out.raised THEN "raised" ELSE "drop"
    /\ UNCHANGED <<failed, run, dataset, data, idx, flattened_record,
                   existing_columns, kidx, log, conn, arg, inferred, tables,
                   json_columns, stack>>

\* the iteration ends (lines 185-193): the column is dropped and the drop
\* committed; the ALTER TABLE is outside any try
split_drop_column ==
    /\ pc = "drop"
    /\ \E ok \in BOOLEAN :
          IF ok
          THEN /\ db' = DropColumn(work, Head(tables),
                                   Head(json_columns).column_name)
               /\ work' = db'
               /\ json_columns' = Tail(json_columns)
               /\ call' = call
               /\ pc' = "split"
          ELSE /\ UNCHANGED <<db, work, json_columns>>
               /\ call' = "OperationalError"
               /\ pc' = "raised"
    /\ UNCHANGED <<failed, run, dataset, data, idx, flattened_record,
                   existing_columns, kidx, log, conn, arg, inferred, tables,
                   stack>>

\* split_json_columns returns; process_nested_json goes on with its next table
split_json_columns_returns ==
    /\ pc = "split"
    /\ json_columns = <<>>
    /\ tables' = Tail(tables)
    /\ pc' = IF Tail(tables) = <<>> THEN "script" ELSE "tables"
    /\ call' = IF Tail(tables) = <<>> THEN "returned" ELSE call
    /\ UNCHANGED <<db, work, failed, run, dataset, data, idx,
                   flattened_record, existing_columns, kidx, log, conn, arg,
                   inferred, json_columns, stack>>

NextTransform ==
    \/ remove_data_column_if_exists
    \/ create_nested_table
    \/ call_create_related_table
    \/ call_migrate_json_data
    \/ process_nested_json
    \/ call_split_json_columns
    \/ split_json_columns
    \/ split_create_related_table
    \/ split_migrate_json_data
    \/ split_drop_column
    \/ split_json_columns_returns

SpecTransform == InitTransform /\ [][NextTransform]_vars

(***************************************************************************)
(* old/fetch_data.py: the loader of old/fetch_data2.py with one more step. *)
(* After the upsert of a record has executed, and inside the same try,     *)
(* process_nested_json walks the record: for each nested object or array   *)
(* it creates the table {parent}_{key} and calls insert_or_update_data on  *)
(* it with the flattened object, or with one record per element, and then  *)
(* calls itself on the object.  Each statement of the walk is a step, and  *)
(* the server can refuse it; the connection stays up.                      *)
(***************************************************************************)
\* a call of process_nested_json(conn, parent_table, parent_id, data) that
\* has just begun: n is the position of its loop over data.items(), j the
\* position of its loop over the elements of a list, and `at` is where it
\* stands: "item" at the head of the loop, "child" once the table of an
\* object is ensured, "elements" in the loop over a list, "recurse" while the
\* call of line 179 runs
Frame(parent_table, parent_id, d) ==
    [parent_table |-> parent_table, parent_id |-> parent_id, data |-> d,
     n |-> 1, j |-> 0, at |-> "item"]

\* the innermost call of process_nested_json
top == Head(stack)

nested_key == top.data[top.n].key

nested_value == top.data[top.n].value

\* child_table = f"{parent_table}_{key}"
nested_table == child_table(top.parent_table, nested_key)

\* the record process_nested_json hands to insert_or_update_data:
\* flattened_child, flattened_item or simple_record
nested_record ==
    IF top.at = "child"
    THEN Put(legacy_flatten_json(nested_value.val, ""),
             "parent_id", top.parent_id)
    ELSE LET item == nested_value.val[top.j]
         IN IF item.kind = "dict"
            THEN Put(Put(legacy_flatten_json(item.val, ""),
                         "parent_id", top.parent_id),
                     "item_index", VInt(top.j - 1))
            ELSE <<Item("parent_id", top.parent_id), Item("value", item),
                   Item("item_index", VInt(top.j - 1))>>

\* process_nested_json is about to call insert_or_update_data
calls_insert == pc = "nested" /\ top.at \in {"child", "elements"}

\* the stack once that call of insert_or_update_data has returned: for an
\* object the recursive call of line 179 begins, for a list the loop goes to
\* the next element, or the loop over the items to the next item
insert_returned ==
    IF top.at = "child"
    THEN <<Frame(nested_table, top.parent_id, nested_value.val),
           [top EXCEPT !.at = "recurse"]>> \o Tail(stack)
    ELSE IF top.j < Len(nested_value.val)
    THEN <<[top EXCEPT !.j = @ + 1]>> \o Tail(stack)
    ELSE <<[top EXCEPT !.n = @ + 1, !.j = 0, !.at = "item"]>> \o Tail(stack)

\* records whose nested objects carry ids of their own
rec_engines ==
    <<Item("id", VStr("L2")),
      Item("rocket",
           VDict(<<Item("id", VStr("r1")),
                   Item("engines", VDict(<<Item("id", VStr("e1")),
                                           Item("number", VInt(2))>>))>>))>>
rec_cores ==
    <<Item("id", VStr("b2")),
      Item("cores", VList(<<VDict(<<Item("id", VStr("c1")),
                                    Item("flight", VInt(1))>>)>>))>>
rec_payload ==
    <<Item("id", VInt(7)),
      Item("rocket", VDict(<<Item("id", VStr("r1"))>>))>>

NestedRecords == {rec_noid, rec_tags, rec_engines, rec_cores, rec_payload}

\* a batch whose second record carries a string for the column parent_id of
\* launches_rocket that its first record made an INTEGER
ClashBatch == <<rec_payload, rec_engines>>

NestedBatches == SeqsUpTo(NestedRecords, MaxNestedBatch) \cup {ClashBatch}

\* fetch_data and save_data_to_file succeed: insert_or_update_data is called
nested_fetch_and_process_data ==
    /\ pc = "fetch"
    /\ \E batch \in NestedBatches : data' = batch
    /\ idx' = 1
    /\ call' = "running"
    /\ pc' = "loop"
    /\ UNCHANGED <<db, work, failed, run, dataset, flattened_record,
                   existing_columns, kidx, log, conn, arg, inferred, tables,
                   json_columns, stack>>

\* lines 240-246: the statement is executed and process_nested_json is called
\* on the record; when the statement raises, the except clause prints and
\* calls conn.rollback()
nested_upsert ==
    /\ pc = "columns"
    /\ kidx > Len(flattened_record)
    /\ LET items == UpsertItems(flattened_record)
       IN \E ok \in BOOLEAN :
             IF ok /\ StatementValid(work, table_name, items)
             THEN /\ work' = Upsert(work, table_name, ToStr(record_id), items)
                  /\ log' = log \cup {[i |-> idx, result |-> "ok"]}
                  /\ stack' = <<Frame(table_name, record_id, record)>>
                  /\ pc' = "nested"
                  /\ idx' = idx
             ELSE /\ work' = db
                  /\ log' = log \cup {[i |-> idx, result |-> "error"]}
                  /\ stack' = stack
                  /\ pc' = "loop"
                  /\ idx' = idx + 1
    /\ UNCHANGED <<db, failed, run, dataset, data, flattened_record,
                   existing_columns, kidx, call, conn, arg, inferred, tables,
                   json_columns>>

\* process_nested_json's loop passes an item that is neither a dict nor a list
nested_next_item ==
    /\ pc = "nested"
    /\ top.at = "item"
    /\ top.n <= Len(top.data)
    /\ nested_value.kind \notin {"dict", "list"}
    /\ stack' = <<[top EXCEPT !.n = @ + 1]>> \o Tail(stack)
    /\ UNCHANGED <<db, work, failed, pc, run, dataset, data, idx,
                   flattened_record, existing_columns, kidx, call, log, conn,
                   arg, inferred, tables, json_columns>>

\* lines 171 and 184: create_table_if_not_exists(conn, child_table) for a dict
\* or a list: CREATE TABLE IF NOT EXISTS and commit, which commits the
\* upserts the transaction holds; on an exception, rollback, which discards
\* them
nested_create_table ==
    /\ pc = "nested"
    /\ top.at = "item"
    /\ top.n <= Len(top.data)
    /\ nested_value.kind \in {"dict", "list"}
    /\ \E ok \in BOOLEAN :
          /\ db' = IF ok
                   THEN CreateTableIfNotExists(work, nested_table,
                            {<<"id", "TEXT">>, <<"data", "TEXT">>})
                   ELSE db
          /\ failed' = (failed \/ ~ok)
    /\ work' = db'
    /\ stack' =
          <<IF nested_value.kind = "dict"
            THEN [top EXCEPT !.at = "child"]
            ELSE IF Len(nested_value.val) = 0
            THEN [top EXCEPT !.n = @ + 1]
            ELSE [top EXCEPT !.at = "elements", !.j = 1]>> \o Tail(stack)
    /\ UNCHANGED <<pc, run, dataset, data, idx, flattened_record,
                   existing_columns, kidx, call, log, conn, arg, inferred,
                   tables, json_columns>>

\* insert_or_update_data(conn, child_table, [record]) for a record without
\* an id: it is skipped, and the conn.commit() of line 248 commits what the
\* transaction holds
nested_skip_record ==
    /\ calls_insert
    /\ ~Truthy(Get(nested_record, "id"))
    /\ db' = work
    /\ stack' = insert_returned
    /\ UNCHANGED <<work, failed, pc, run, dataset, data, idx,
                   flattened_record, existing_columns, kidx, call, log, conn,
                   arg, inferred, tables, json_columns>>

\* insert_or_update_data(conn, child_table, [record]) for a record with an
\* id: flatten_json, process_boolean_values, and the catalog query that opens
\* add_missing_columns
nested_flatten_record ==
    /\ calls_insert
    /\ Truthy(Get(nested_record, "id"))
    /\ flattened_record' =
          legacy_process_boolean_values(legacy_flatten_json(nested_record, ""))
    /\ existing_columns' = ColumnsOf(work, nested_table)
    /\ kidx' = 1
    /\ pc' = "nested_columns"
    /\ UNCHANGED <<db, work, failed, run, dataset, data, idx, call, log, conn,
                   arg, inferred, tables, json_columns, stack>>

\* one iteration of add_missing_columns' loop, on the child table
nested_add_missing_columns ==
    /\ pc = "nested_columns"
    /\ kidx <= Len(flattened_record)
    /\ LET column_name == Lower(flattened_record[kidx].key)
           column_type == infer_column_type(flattened_record[kidx].value)
       IN IF column_name \in {c.column_name : c \in existing_columns}
          THEN UNCHANGED <<db, work, failed>>
          ELSE \E ok \in BOOLEAN :
                  IF ok /\ CanAddColumn(work, nested_table, column_name)
                  THEN /\ db' = AddColumn(work, nested_table, column_name,
                                          column_type)
                       /\ work' = db'
                       /\ failed' = failed
                  ELSE /\ work' = db
                       /\ db' = db
                       /\ failed' = TRUE
    /\ kidx' = kidx + 1
    /\ UNCHANGED <<pc, run, dataset, data, idx, flattened_record,
                   existing_columns, call, log, conn, arg, inferred, tables,
                   json_columns, stack>>

\* the child record's statement is executed; its own process_nested_json
\* finds no dict and no list in a flattened record; when the statement
\* raises, rollback; then the loop is over and line 248 commits
nested_insert_or_update_data ==
    /\ pc = "nested_columns"
    /\ kidx > Len(flattened_record)
    /\ LET items == UpsertItems(flattened_record)
       IN \E ok \in BOOLEAN :
             db' = IF ok /\ StatementValid(work, nested_table, items)
                   THEN Upsert(work, nested_table,
                               ToStr(Get(nested_record, "id")), items)
                   ELSE db
    /\ work' = db'
    /\ pc' = "nested"
    /\ stack' = insert_returned
    /\ UNCHANGED <<failed, run, dataset, data, idx, flattened_record,
                   existing_columns, kidx, call, log, conn, arg, inferred,
                   tables, json_columns>>

\* process_nested_json's loop is over and the call returns: to the call that
\* made it at line 179, whose loop goes on, or to insert_or_update_data at
\* line 243, whose loop goes to the next record
legacy_process_nested_json_returns ==
    /\ pc = "nested"
    /\ top.at = "item"
    /\ top.n > Len(top.data)
    /\ IF Len(stack) = 1
       THEN /\ stack' = <<>>
            /\ pc' = "loop"
            /\ idx' = idx + 1
       ELSE /\ stack' = <<[stack[2] EXCEPT !.n = @ + 1, !.at = "item"]>>
                           \o Tail(Tail(stack))
            /\ pc' = pc
            /\ idx' = idx
    /\ UNCHANGED <<db, work, failed, run, dataset, data, flattened_record,
                   existing_columns, kidx, call, log, conn, arg, inferred,
                   tables, json_columns>>

NextNested ==
    \/ Connect
    \/ ConnectFails
    \/ create_table_if_not_exists
    \/ nested_fetch_and_process_data
    \/ fetch_fails
    \/ skip_record
    \/ legacy_flatten_record
    \/ add_missing_columns
    \/ nested_upsert
    \/ nested_next_item
    \/ nested_create_table
    \/ nested_skip_record
    \/ nested_flatten_record
    \/ nested_add_missing_columns
    \/ nested_insert_or_update_data
    \/ legacy_process_nested_json_returns
    \/ insert_or_update_data_returns
    \/ next_dataset

SpecNested == Init /\ [][NextNested]_vars

(***************************************************************************)
(* What the claims speak of.                                               *)
(***************************************************************************)
\* insert_or_update_data was called and has ended (returned or raised), and
\* no DDL statement of the dataset failed
Ended == pc = "next" /\ call # "idle" /\ ~failed

\* the call has ended and its loop had taken up record i, which has a usable id
Reached(i) ==
    /\ Ended
    /\ i \in 1..Len(data)
    /\ i <= idx
    /\ Truthy(Get(data[i], "id"))

RowsOf(t) == {r \in db.rows : r.table = t}

IsScalar(v) == v.kind \notin {"dict", "list", "Json"}

\* C1: a record whose processing fails never aborts the batch: every call of
\* insert_or_update_data on a batch of several records ends by returning
\* normally, after its loop has gone through every record of the batch.
C1_BadRecordNeverAbortsBatch ==
    (Ended /\ Len(data) >= 2) =>
       (call = "returned" /\ idx = Len(data) + 1)

\* C3: in a batch of three records where only the second lacks an id, the rows
\* of the first and of the third record are in the table after the batch.
C3_BatchOfThree ==
    (/\ Ended
     /\ Len(data) = 3
     /\ Truthy(Get(data[1], "id"))
     /\ ~Truthy(Get(data[2], "id"))
     /\ Truthy(Get(data[3], "id")))
    => \A i \in {1, 3} :
          \E r \in RowsOf(table_name) : r.id = ToStr(Get(data[i], "id"))

\* C5: when the id of a loaded record matches an existing row, that row holds
\* the record's value in every non-id column the record names.
C5_UpsertOverwritesNamedColumns ==
    \A i \in 1..Len(data) :
       Reached(i) =>
          \A r \in RowsOf(table_name) :
             r.id = ToStr(Get(data[i], "id")) =>
                \A k \in 1..Len(data[i]) :
                   (data[i][k].key # "id" /\ IsScalar(data[i][k].value)) =>
                      Item(Lower(data[i][k].key), data[i][k].value) \in r.cells

\* the keys under which the records and columns of the model hold nested
\* values
NestedKeys == {"rocket", "engines", "cores", "tags", "dragon"}

\* C6: in every reachable state, every row of a child table {parent}_{key}
\* carries a parent reference (parent_id or {parent}_id) that is not null and
\* equals the id of a row of the parent table.
C6_ChildRowsReferenceParent ==
    \A p \in db.relations : \A k \in NestedKeys :
       child_table(p, k) \in db.relations =>
          \A r \in RowsOf(child_table(p, k)) :
             \E x \in r.cells :
                /\ x.key \in {"parent_id", child_table(p, "id")}
                /\ x.value # VNone
                /\ \E parent \in RowsOf(p) : parent.id = ToStr(x.value)

\* C7: after a record with id p and an array field f of n scalars is loaded,
\* the child table {root}_f holds n rows, the i-th with item_index i, the i-th
\* element as value, and parent id p.
C7_ArrayFidelity ==
    \A i \in 1..Len(data) :
       Reached(i) =>
          \A k \in 1..Len(data[i]) :
             data[i][k].value.kind = "list" =>
                LET child == child_table(table_name, data[i][k].key)
                    elems == data[i][k].value.val
                    p == Get(data[i], "id")
                IN /\ child \in db.relations
                   /\ Cardinality(RowsOf(child)) >= Len(elems)
                   /\ \A j \in 1..Len(elems) :
                         \E r \in RowsOf(child) :
                            /\ Item("item_index", VInt(j - 1)) \in r.cells
                            /\ Item("value", elems[j]) \in r.cells
                            /\ Item(table_name \o "_id", p) \in r.cells

\* C8: after a record with id p and an object field f is loaded, the child
\* table {root}_f has one column per key of the object, typed by inference,
\* and exactly one row with {root}_id = p, holding the object's values.
C8_NestedObjectRoundTrip ==
    \A i \in 1..Len(data) :
       Reached(i) =>
          \A k \in 1..Len(data[i]) :
             data[i][k].value.kind = "dict" =>
                LET child == child_table(table_name, data[i][k].key)
                    obj == data[i][k].value.val
                    p == Get(data[i], "id")
                    mine == {r \in RowsOf(child) :
                               Item(table_name \o "_id", p) \in r.cells}
                IN /\ child \in db.relations
                   /\ \A m \in 1..Len(obj) :
                         Column(child, Lower(obj[m].key),
                                infer_column_type(obj[m].value)) \in db.columns
                   /\ Cardinality(mine) = 1
                   /\ \A r \in mine : \A m \in 1..Len(obj) :
                         Item(Lower(obj[m].key), obj[m].value) \in r.cells

\* C9: after a record is loaded, every top-level scalar key of it, lower-cased,
\* is a column of the root table, and every key inside a nested object field
\* is a column of that field's child table.
C9_SchemaCompleteness ==
    \A i \in 1..Len(data) :
       Reached(i) =>
          \A k \in 1..Len(data[i]) :
             LET v == data[i][k].value
             IN /\ IsScalar(v) =>
                     Lower(data[i][k].key) \in ColumnNames(db, table_name)
                /\ v.kind = "dict" =>
                     \A m \in 1..Len(v.val) :
                        Lower(v.val[m].key) \in
                           ColumnNames(db, child_table(table_name,
                                                       data[i][k].key))

\* C10: the load path only widens the schema: every step keeps every relation
\* and every column, and leaves every existing column with the type it had.
C10_SchemaOnlyWidens ==
    [][/\ db.relations \subseteq db'.relations
       /\ \A c \in db.columns :
             /\ c \in db'.columns
             /\ \A c2 \in db'.columns :
                   (c2.table_name = c.table_name
                    /\ c2.column_name = c.column_name)
                   => c2.data_type = c.data_type]_vars

\* a record carrying an integer for the existing TEXT column `name` has gone
\* through add_missing_columns
C10_Witness ==
    /\ pc = "columns"
    /\ \E k \in 1..Len(flattened_record) :
          /\ k < kidx
          /\ Lower(flattened_record[k].key) = "name"
          /\ infer_column_type(flattened_record[k].value) = "INTEGER"
          /\ Column(table_name, "name", "TEXT") \in existing_columns
          /\ Column(table_name, "name", "TEXT") \in db.columns

\* the type the precedence list of the specification gives a value: the first
\* rule that matches, a float taken as a non-integer number
first_matching_rule(v) ==
    CASE v.kind = "bool" -> "BOOLEAN"
      [] v.kind = "int" -> "INTEGER"
      [] v.kind = "float" -> "REAL"
      [] v.kind = "str" /\ Lower(v.val) \in {"true", "false"} -> "BOOLEAN"
      [] v.kind = "str" -> "TEXT"
      [] v.kind \in {"dict", "list"} -> "jsonb"
      [] OTHER -> "TEXT"

\* C11: for every value, infer_column_type returns the type of the first
\* matching rule of the list boolean, integer, float, string "true"/"false",
\* other string, object or array, anything else.
C11_InferFirstMatch ==
    pc = "inferred" => inferred = first_matching_rule(arg)

\* C12: a boolean field of a record, for which the table had no column when
\* the record's columns were reconciled, gets a BOOLEAN column and is kept as
\* a boolean in the values to store; and no table ever has two columns of the
\* same name.
C12_BooleanColumn ==
    /\ (pc = "columns" /\ ~failed) =>
          \A k \in 1..Len(flattened_record) : \A m \in 1..Len(record) :
             (/\ k < kidx
              /\ Lower(record[m].key) = flattened_record[k].key
              /\ record[m].value.kind = "bool"
              /\ flattened_record[k].key \notin
                    {c.column_name : c \in existing_columns})
             => /\ Column(table_name, flattened_record[k].key, "BOOLEAN")
                      \in db.columns
                /\ flattened_record[k].value.kind = "bool"
    /\ \A c1 \in db.columns : \A c2 \in db.columns :
          (c1.table_name = c2.table_name /\ c1.column_name = c2.column_name)
          => c1 = c2

\* C13: once the connection is lost, the run is over for that connection: no
\* step takes up a later record or a later dataset on it.
C13_ConnectionLossAbortsRun ==
    [][(conn = "lost" /\ conn' = "lost") =>
          (idx' = idx /\ dataset' = dataset)]_vars

\* insert_or_update_data returned and fetch_and_process_data printed
\* "Data successfully inserted into {table_name}", all it reports of a batch
reported_success == pc = "next" /\ call = "returned"

\* C14: a batch in which a record was skipped or failed is never reported as a
\* plain success.
C14_NoSilentPartialSuccess ==
    reported_success =>
       \A i \in 1..Len(data) :
          /\ Truthy(Get(data[i], "id"))
          /\ [i |-> i, result |-> "error"] \notin log

\* the record has a field that process_nested_columns would route to a child
\* table
HasNested(r) == \E m \in 1..Len(r) : r[m].value.kind \in {"dict", "list"}

\* C15: a failure of the child-table step of a record with a nested field is
\* confined to that record: the call never ends on an exception of that step
\* while later records of the batch remain.
C15_ChildFailureConfined ==
    ~(/\ Ended
      /\ call = "UnboundLocalError"
      /\ idx < Len(data)
      /\ HasNested(record))

\* C16: after a record whose object field a has itself an object or array
\* field b is loaded, the child table {root}_a_b exists and holds a row.
C16_NestedAtEveryDepth ==
    \A i \in 1..Len(data) :
       Reached(i) =>
          \A k \in 1..Len(data[i]) :
             data[i][k].value.kind = "dict" =>
                \A m \in 1..Len(data[i][k].value.val) :
                   data[i][k].value.val[m].value.kind \in {"dict", "list"} =>
                      LET child == child_table(table_name, data[i][k].key)
                          grandchild ==
                             child_table(child, data[i][k].value.val[m].key)
                      IN /\ grandchild \in db.relations
                         /\ RowsOf(grandchild) # {}

\* C17: the steps of a record run in the order flatten, ensure columns, write
\* the root row, route nested fields: whenever the nested-routing call of the
\* record at idx has been made (it is what raised), that record's upsert has
\* been executed.
C17_RootRowBeforeNested ==
    (call = "UnboundLocalError" /\ ~failed) =>
       [i |-> idx, result |-> "ok"] \in log

\* C18: every DDL statement of the load path is committed before the loader
\* executes anything else: at every step the tables and columns the
\* connection's transaction sees are the committed ones, so a statement that
\* uses a created table or an added column finds it committed.
C18_DDLCommittedBeforeDML ==
    /\ work.relations = db.relations
    /\ work.columns = db.columns

\* add_missing_columns has added a column for the record and returned: the
\* loader is at the statements that follow line 42
C18_Witness ==
    /\ pc = "columns"
    /\ kidx > Len(flattened_record)
    /\ ~failed
    /\ \E k \in 1..Len(flattened_record) :
          /\ flattened_record[k].key \notin
                {c.column_name : c \in existing_columns}
          /\ Column(table_name, flattened_record[k].key,
                    infer_column_type(flattened_record[k].value))
                \in db.columns

\* C19: a failed ADD COLUMN abandons only that addition: while the call runs
\* and no upsert has failed, every record of the batch whose upsert succeeded
\* has its row in the connection's transaction.
C19_AddColumnFailureIsItsOwnUnit ==
    (call = "running" /\ \A e \in log : e.result = "ok") =>
       \A e \in log :
          \E r \in work.rows :
             r.table = table_name /\ r.id = ToStr(Get(data[e.i], "id"))

\* C20: the catalog is read afresh for each record, a column the snapshot
\* holds is not added again, and a step of add_missing_columns (a failed ADD
\* COLUMN included) never ends the call while the connection is up.
C20_CatalogReadPerRecord ==
    [][/\ (pc = "loop" /\ pc' = "columns") =>
             existing_columns' = ColumnsOf(db', table_name)
       /\ (pc = "columns" /\ kidx' = kidx + 1
              /\ Lower(flattened_record[kidx].key) \in
                    {c.column_name : c \in existing_columns}) =>
             (db' = db /\ work' = work)
       /\ (pc = "columns" /\ kidx <= Len(flattened_record)
              /\ conn' = "open") =>
             (pc' = "columns" /\ call' = call)]_vars

\* another session added `landed` between the loader's catalog read and its
\* own ADD COLUMN landed, which failed and was handled
C20_Witness ==
    /\ pc = "columns"
    /\ call = "running"
    /\ failed
    /\ \E k \in 1..Len(flattened_record) :
          /\ k < kidx
          /\ flattened_record[k].key = "landed"
          /\ infer_column_type(flattened_record[k].value) = "INTEGER"
          /\ "landed" \notin {c.column_name : c \in existing_columns}
          /\ Column(table_name, "landed", "TEXT") \in db.columns

\* C21: flatten_json lower-cases every key, copies every scalar field through
\* unchanged and leaves every object- or array-valued field out of the flat
\* mapping, so that such a field gets no column in the root table.
C21_FlatMappingHasNoNestedField ==
    (pc = "columns" /\ kidx > Len(flattened_record) /\ ~failed) =>
       LET flat == flatten_json(record, "")
       IN /\ \A k \in 1..Len(flat) : flat[k].key = Lower(flat[k].key)
          /\ \A m \in 1..Len(record) :
                IF IsScalar(record[m].value)
                THEN Get(flat, Lower(record[m].key)) = record[m].value
                ELSE /\ Lower(record[m].key) \notin Keys(flat)
                     /\ Lower(record[m].key) \notin
                           ColumnNames(db, table_name)

\* the loop has gone past record i without building a statement for it
Skipped(i) == i < idx /\ \A e \in log : e.i # i

\* the ids the specification has skipped: absent or null, or the empty string
UnusableId(v) == v = VNone \/ v = VStr("")

\* C22: a record is skipped if and only if its id is absent, null or the empty
\* string: a record the loop went past without processing has such an id, and
\* a record being processed has not; an integer id, 0 included, is never
\* skipped.
C22_SkipIffNoId ==
    \A i \in 1..Len(data) :
       /\ Skipped(i) => UnusableId(Get(data[i], "id"))
       /\ (pc = "columns" /\ idx = i) => ~UnusableId(Get(data[i], "id"))

\* C23: whatever the number of its other fields, the statement built for a
\* record with a usable id, once its columns are in place, is one the database
\* accepts; in particular the statement of a record whose only field is id.
C23_IdOnlyRecordUpserted ==
    (pc = "columns" /\ kidx > Len(flattened_record) /\ ~failed) =>
       StatementValid(work, table_name, UpsertItems(flattened_record))

\* C2: when the upsert of record k fails, every record of the batch (with
\* another id) whose upsert succeeded before k is in the table after the
\* batch's final commit.
C2_OnlyFailedRecordRolledBack ==
    (Ended /\ call = "returned") =>
       \A k \in 1..Len(data) :
          [i |-> k, result |-> "error"] \in log =>
             \A j \in 1..(k - 1) :
                (/\ [i |-> j, result |-> "ok"] \in log
                 /\ Get(data[j], "id") # Get(data[k], "id")) =>
                   \E r \in RowsOf(table_name) :
                      r.id = ToStr(Get(data[j], "id"))

====
